---- MODULE Spec2Model ----
(***************************************************************************)
(* Model of the request authentication pipeline of the Florgon API         *)
(* (app/services/request/auth.py) together with the collaborators it       *)
(* calls: the token codec, the scope parser, the session and user stores   *)
(* and the client check.                                                   *)
(*                                                                         *)
(* Text is modelled as a sequence of chunks.  A chunk is either the scope  *)
(* separator "," or a piece of text that holds no separator; a permission  *)
(* name is one chunk.  The empty string is the empty sequence.             *)
(***************************************************************************)
EXTENDS Integers, Sequences, FiniteSets, TLC

(***************************************************************************)
(* Bounds                                                                  *)
(***************************************************************************)
\* the clock runs 0..MaxTime
MaxTime == 1
\* longest required-permission list of the permission check
MaxLen == 2
\* longest scope text (in chunks) of the permission check
MaxScopeLen == 3

(***************************************************************************)
(* Permissions and scopes                                                  *)
(***************************************************************************)
\* app.services.permissions.Permission of the api application
Permission == {"oauth_clients", "noexpire"}

SCOPE_PERMISSION_SEPARATOR == ","

SCOPE_ALLOWED_PERMISSIONS == Permission

\* the chunks scope texts are made of
Chunks == {SCOPE_PERMISSION_SEPARATOR, "oauth_clients", "noexpire", "x"}

\* str.split(sep): the segments between separators, always at least one
RECURSIVE SplitFrom(_, _, _)
SplitFrom(s, i, cur) ==
    IF i > Len(s) THEN <<cur>>
    ELSE IF s[i] = SCOPE_PERMISSION_SEPARATOR
         THEN <<cur>> \o SplitFrom(s, i + 1, <<>>)
         ELSE SplitFrom(s, i + 1, Append(cur, s[i]))

Split(s) == SplitFrom(s, 1, <<>>)

\* sep.join(parts) where every part is one chunk
RECURSIVE Join(_, _)
Join(parts, sep) ==
    IF parts = <<>> THEN <<>>
    ELSE IF Len(parts) = 1 THEN <<parts[1]>>
    ELSE <<parts[1], sep>> \o Join(Tail(parts), sep)

\* `permission in SCOPE_ALLOWED_PERMISSIONS and permission` on one segment
Recognized(seg) == Len(seg) = 1 /\ seg[1] \in SCOPE_ALLOWED_PERMISSIONS

RECURSIVE PermissionsOf(_)
PermissionsOf(segs) ==
    IF segs = <<>> THEN <<>>
    ELSE IF Recognized(Head(segs))
         THEN <<Head(segs)[1]>> \o PermissionsOf(Tail(segs))
         ELSE PermissionsOf(Tail(segs))

\* a parser that looks at the first segment of the text only
parse_first_segment_only(scope) ==
    IF Recognized(Head(Split(scope))) THEN <<Head(Split(scope))[1]>> ELSE <<>>

parse_permissions_from_scope(scope) == PermissionsOf(Split(scope))

InSeq(x, s) == \E i \in 1..Len(s) : s[i] = x

(***************************************************************************)
(* Errors                                                                  *)
(***************************************************************************)
NoResult == [kind |-> "none", exc |-> "", code |-> "", message |-> "",
             required_scope |-> <<>>]

ApiErrorException(code, message) ==
    [kind |-> "error", exc |-> "ApiErrorException", code |-> code,
     message |-> message, required_scope |-> <<>>]

ApiErrorWithScope(code, message, required_scope) ==
    [kind |-> "error", exc |-> "ApiErrorException", code |-> code,
     message |-> message, required_scope |-> required_scope]

\* an exception of app.tokens.exceptions
TokenException(name) ==
    [kind |-> "error", exc |-> name, code |-> "", message |-> "",
     required_scope |-> <<>>]

Returned == [kind |-> "auth", exc |-> "", code |-> "", message |-> "",
             required_scope |-> <<>>]

IntegrityMessage == "Authentication system integrity check failed!"

\* _raise_integrity_check_error with an error code of its own
integrity_error_own_code ==
    ApiErrorException("AUTH_INTEGRITY_FAILURE", IntegrityMessage)

_raise_integrity_check_error ==
    ApiErrorException("AUTH_INVALID_TOKEN", IntegrityMessage)


(***************************************************************************)
(* _query_scope_permissions                                                *)
(***************************************************************************)
\* unsatisfied_permissions stopping at the first permission that is not held
unsatisfied_permissions_first(permissions, required_permissions) ==
    LET all == SelectSeq(required_permissions, LAMBDA p : ~InSeq(p, permissions))
    IN  IF all = <<>> THEN <<>> ELSE <<all[1]>>

\* the required permissions `permission not in permissions` keeps
unsatisfied_permissions(permissions, required_permissions) ==
    SelectSeq(required_permissions, LAMBDA p : ~InSeq(p, permissions))

\* ", ".join(permission.value for permission in unsatisfied_permissions)
required_scope_of(unsatisfied) == Join(unsatisfied, ", ")

InsufficientMessage == "Insufficient permissions to call this method!"

\* None and [] are both falsy: an absent requirement is the empty sequence
_query_scope_permissions(scope, required_permissions) ==
    LET permissions == parse_permissions_from_scope(scope)
        unsatisfied == unsatisfied_permissions(permissions, required_permissions)
    IN  IF required_permissions = <<>>
        THEN [raised |-> FALSE, permissions |-> permissions, error |-> NoResult]
        ELSE IF unsatisfied # <<>>
        THEN [raised |-> TRUE, permissions |-> <<>>,
              error |-> ApiErrorWithScope("AUTH_INSUFFICIENT_PERMISSIONS",
                                          InsufficientMessage,
                                          required_scope_of(unsatisfied))]
        ELSE [raised |-> FALSE, permissions |-> permissions, error |-> NoResult]

(***************************************************************************)
(* Token codec (app.tokens)                                                *)
(***************************************************************************)
NoKey == "none"
\* the secret of session 1, and a key that is no session's secret
SessionSecret == "k1"
ForeignKey == "kx"
SigningKeys == {SessionSecret, ForeignKey}

TokenTypes == {"access", "session", "email"}

\* session ids as a payload carries them: an integer or some other JSON value
IntSid(n) == [is_int |-> TRUE, v |-> n]
StrSid == [is_int |-> FALSE, v |-> 0]

EmptyToken == [form |-> "empty", type |-> "", sub |-> 0, sid |-> StrSid,
               scope |-> <<>>, exp |-> 0, sig |-> NoKey]
GarbageToken == [form |-> "garbage", type |-> "", sub |-> 0, sid |-> StrSid,
                 scope |-> <<>>, exp |-> 0, sig |-> NoKey]

NoToken == [type |-> "", sub |-> 0, sid |-> StrSid, scope |-> <<>>,
            signature_is_valid |-> FALSE]

\* decode that takes the signature as valid under any key given
decode_any_key(cls, token, key, t) ==
    IF token.form # "jwt"
    THEN [raised |-> TRUE, error |-> TokenException("TokenInvalidError"),
          token |-> NoToken]
    ELSE IF token.type # cls
    THEN [raised |-> TRUE, error |-> TokenException("TokenWrongTypeError"),
          token |-> NoToken]
    ELSE IF t > token.exp
    THEN [raised |-> TRUE, error |-> TokenException("TokenExpiredError"),
          token |-> NoToken]
    ELSE [raised |-> FALSE, error |-> NoResult,
          token |-> [type |-> token.type, sub |-> token.sub, sid |-> token.sid,
                     scope |-> token.scope,
                     signature_is_valid |-> (key # NoKey)]]

\* decode(token, key) of the token class `cls` at time t: the structural parse,
\* then the type tag, then the expiry, then the signature under the key
decode(cls, token, key, t) ==
    IF token.form # "jwt"
    THEN [raised |-> TRUE, error |-> TokenException("TokenInvalidError"),
          token |-> NoToken]
    ELSE IF token.type # cls
    THEN [raised |-> TRUE, error |-> TokenException("TokenWrongTypeError"),
          token |-> NoToken]
    ELSE IF t > token.exp
    THEN [raised |-> TRUE, error |-> TokenException("TokenExpiredError"),
          token |-> NoToken]
    ELSE [raised |-> FALSE, error |-> NoResult,
          token |-> [type |-> token.type, sub |-> token.sub, sid |-> token.sid,
                     scope |-> token.scope,
                     signature_is_valid |-> (key # NoKey /\ token.sig = key)]]

decode_unsigned(cls, token, t) == decode(cls, token, NoKey, t)


(***************************************************************************)
(* Stores, requests and the state of the pipeline                          *)
(***************************************************************************)
VARIABLES
    sessions,   \* the session store: session id -> record
    users,      \* the user store: user id -> record
    now,        \* the clock
    pc,         \* where the request in flight stands
    req,        \* the arguments of the request in flight
    auth,       \* the locals of the pipeline; the AuthData on success
    log,        \* the collaborator calls of the request in flight, in order
    pipe,       \* how query_auth_data_from_token / _from_request ended
    result      \* what the entry point gave its caller

vars == <<sessions, users, now, pc, req, auth, log, pipe, result>>

SessionIds == {1}
UserIds == {1, 2}
\* subjects a payload may name: the owner of session 1, another user, nobody
Subjects == {1, 2, 3}
\* session ids a payload may name: session 1, a session that does not exist,
\* a value that is no integer
PayloadSids == {IntSid(1), IntSid(2), StrSid}

\* scope texts the tokens of the pipeline carry
TokenScopes == {<<>>, <<"oauth_clients">>, <<"noexpire">>}

\* the tokens of the pipeline expire when the clock first ticks
TokenExp == 0

Tokens ==
    {EmptyToken, GarbageToken} \cup
    [form : {"jwt"}, type : TokenTypes, sub : Subjects, sid : PayloadSids,
     scope : TokenScopes, exp : {TokenExp}, sig : SigningKeys]

RequiredPermissions == {<<>>, <<"oauth_clients">>}

Entries == {"token", "request", "try"}

NoSession == [id |-> 0, owner_id |-> 0, token_secret |-> NoKey, is_active |-> FALSE]
NoUser == [id |-> 0, is_active |-> FALSE]

\* client: the answer of the client check, "none" while it has not run
NoAuth == [token |-> NoToken, session |-> NoSession, permissions |-> <<>>,
           user |-> NoUser, allow_external_clients |-> FALSE, client |-> "none"]

NoReq == [entry |-> "token", token |-> EmptyToken, only_session_token |-> FALSE,
          required_permissions |-> <<>>, allow_deactivated |-> FALSE,
          allow_external_clients |-> FALSE, trigger_online_update |-> FALSE]

Init ==
    /\ sessions = [s \in SessionIds |->
                     [id |-> s, owner_id |-> 1, token_secret |-> SessionSecret,
                      is_active |-> TRUE]]
    /\ users = [u \in UserIds |->
                  [id |-> u, is_active |-> (u = 1), time_online |-> -1]]
    /\ now = 0
    /\ pc = "idle"
    /\ req = NoReq
    /\ auth = NoAuth
    /\ log = <<>>
    /\ pipe = NoResult
    /\ result = NoResult

\* crud.user_session.get_by_id
session_get_by_id(sid) == IF sid \in DOMAIN sessions THEN sessions[sid] ELSE NoSession

\* crud.user.get_by_id
user_get_by_id(uid) ==
    IF uid \in DOMAIN users
    THEN [id |-> uid, is_active |-> users[uid].is_active]
    ELSE NoUser

\* _get_token_from_request preferring the parameter to the header
_get_token_from_request_param_first(header, access_token, session_token, only_session_token) ==
    IF only_session_token THEN session_token
    ELSE IF access_token # EmptyToken THEN access_token ELSE header

\* _get_token_from_request: the header when it is non-empty, else the parameter;
\* the session_token parameter alone in session-only mode
_get_token_from_request(header, access_token, session_token, only_session_token) ==
    IF only_session_token THEN session_token
    ELSE IF header # EmptyToken THEN header ELSE access_token

\* query_auth_data_from_token decoding with AccessToken in either mode
token_type_of_always_access(only_session_token) == "access"

\* the class query_auth_data_from_token decodes with
token_type_of(only_session_token) == IF only_session_token THEN "session" ELSE "access"

\* what the entry point gives its caller for the pipeline's outcome r
\* (try_query_auth_data_from_request catches ApiErrorException alone)
Caught(r) == r.kind = "error" /\ r.exc = "ApiErrorException"

Deliver(entry, r) ==
    IF entry # "try" THEN r
    ELSE IF r.kind = "auth"
    THEN [kind |-> "pair_true", exc |-> "", code |-> "", message |-> "",
          required_scope |-> <<>>]
    ELSE IF Caught(r)
    THEN [kind |-> "pair_false", exc |-> "", code |-> "", message |-> "",
          required_scope |-> <<>>]
    ELSE r

\* the request of entry point `entry` ends with outcome r
Finish(entry, r) ==
    /\ pc' = "done"
    /\ pipe' = r
    /\ result' = Deliver(entry, r)


(***************************************************************************)
(* _decode_token, first half: up to the scope check (no store access)      *)
(***************************************************************************)
\* external_clients_allowed without the look at the noexpire permission
external_clients_allowed_flag_only(allow_external_clients, permissions) ==
    allow_external_clients

\* `(Permission.noexpire in permissions) if not allow_external_clients else True`
external_clients_allowed(allow_external_clients, permissions) ==
    IF ~allow_external_clients THEN InSeq("noexpire", permissions) ELSE TRUE

\* the scope read from the payload whatever the class of the token
scope_of_any_class(cls, unsigned_token) == unsigned_token.scope

\* the scope the permissions are parsed from: the payload's for an access
\* token, the empty string otherwise
scope_of(cls, unsigned_token) ==
    IF cls = "access" THEN unsigned_token.scope ELSE <<>>

\* decode_head with the outcome of the scope check ignored
decode_head_unchecked_scope(token, cls, required_permissions, allow_external_clients, t) ==
    IF token.form = "empty"
    THEN [error |-> ApiErrorException("AUTH_REQUIRED", "Authentication required!"),
          log |-> <<>>, auth |-> NoAuth]
    ELSE
    LET u == decode_unsigned(cls, token, t)
        q == _query_scope_permissions(scope_of(cls, u.token), <<>>)
    IN  IF u.raised
        THEN [error |-> u.error, log |-> <<"decode_unsigned">>, auth |-> NoAuth]
        ELSE [error |-> NoResult, log |-> <<"decode_unsigned">>,
              auth |-> [NoAuth EXCEPT
                          !.token = u.token,
                          !.permissions = q.permissions,
                          !.allow_external_clients =
                              IF ~allow_external_clients
                              THEN InSeq("noexpire", q.permissions) ELSE TRUE]]

\* decode_head without the test for an empty token
decode_head_no_empty_check(token, cls, required_permissions, allow_external_clients, t) ==
    LET u == decode_unsigned(cls, token, t)
        q == _query_scope_permissions(IF u.raised THEN <<>> ELSE scope_of(cls, u.token),
                                      required_permissions)
    IN  IF u.raised
        THEN [error |-> u.error, log |-> <<"decode_unsigned">>, auth |-> NoAuth]
        ELSE IF q.raised
        THEN [error |-> q.error, log |-> <<"decode_unsigned">>, auth |-> NoAuth]
        ELSE [error |-> NoResult, log |-> <<"decode_unsigned">>,
              auth |-> [NoAuth EXCEPT
                          !.token = u.token,
                          !.permissions = q.permissions,
                          !.allow_external_clients =
                              IF ~allow_external_clients
                              THEN InSeq("noexpire", q.permissions) ELSE TRUE]]

decode_head(token, cls, required_permissions, allow_external_clients, t) ==
    IF token.form = "empty"
    THEN [error |-> ApiErrorException("AUTH_REQUIRED", "Authentication required!"),
          log |-> <<>>, auth |-> NoAuth]
    ELSE
    LET u == decode_unsigned(cls, token, t)
        q == _query_scope_permissions(scope_of(cls, u.token), required_permissions)
    IN  IF u.raised
        THEN [error |-> u.error, log |-> <<"decode_unsigned">>, auth |-> NoAuth]
        ELSE IF q.raised
        THEN [error |-> q.error, log |-> <<"decode_unsigned">>, auth |-> NoAuth]
        ELSE [error |-> NoResult, log |-> <<"decode_unsigned">>,
              auth |-> [NoAuth EXCEPT
                          !.token = u.token,
                          !.permissions = q.permissions,
                          !.allow_external_clients =
                              external_clients_allowed(allow_external_clients,
                                                       q.permissions)]]

\* the ValueError of _decode_token
UnexpectedTokenType ==
    [kind |-> "error", exc |-> "ValueError", code |-> "",
     message |-> "Unexpected type of the token type inside _decode_token! Should be access or session!",
     required_scope |-> <<>>]

\* `token_type is not AccessToken and token_type is not SessionToken`
token_type_guard(cls) ==
    IF cls # "access" /\ cls # "session" THEN UnexpectedTokenType ELSE NoResult

\* a call of one of the entry points: the token is taken from the request (or
\* given), its class checked, the token decoded without a key and its scope
\* checked
StartRequest ==
    /\ pc = "idle"
    /\ \E entry \in Entries, tok \in Tokens,
          in_header \in BOOLEAN, in_access \in BOOLEAN, in_session \in BOOLEAN,
          only_session_token \in BOOLEAN, required \in RequiredPermissions,
          allow_deactivated \in BOOLEAN, allow_external_clients \in BOOLEAN,
          trigger_online_update \in BOOLEAN :
        LET token == IF entry = "token" THEN tok
                     ELSE _get_token_from_request(
                              IF in_header THEN tok ELSE EmptyToken,
                              IF in_access THEN tok ELSE EmptyToken,
                              IF in_session THEN tok ELSE EmptyToken,
                              only_session_token)
            g == token_type_guard(token_type_of(only_session_token))
            h == IF g # NoResult THEN [error |-> g, log |-> <<>>, auth |-> NoAuth]
                 ELSE decode_head(token, token_type_of(only_session_token), required,
                                  allow_external_clients, now)
        IN  \* try_query_auth_data_from_request leaves trigger_online_update
            \* at its default
            /\ entry = "try" => trigger_online_update
            /\ req' = [entry |-> entry, token |-> token,
                       only_session_token |-> only_session_token,
                       required_permissions |-> required,
                       allow_deactivated |-> allow_deactivated,
                       allow_external_clients |-> allow_external_clients,
                       trigger_online_update |-> trigger_online_update]
            /\ log' = h.log
            /\ auth' = h.auth
            /\ IF h.error # NoResult
               THEN Finish(entry, h.error)
               ELSE pc' = "session" /\ pipe' = NoResult /\ result' = NoResult
    /\ UNCHANGED <<sessions, users, now>>

(***************************************************************************)
(* _query_session_from_sid and the rest of _decode_token                   *)
(***************************************************************************)
SessionClosedMessage == "Token is not usable as session was closed!"
SignatureMessage == "Unable to validate signature of the token!"

\* the error of a session found closed
SessionClosedError == ApiErrorException("AUTH_INVALID_TOKEN", SessionClosedMessage)

\* the error of a signature that does not verify
InvalidSignatureError == ApiErrorException("AUTH_INVALID_TOKEN", SignatureMessage)

\* session_check_client_by_request fails for a client that is not the
\* session's
SuspiciousClient == ApiErrorException("SUSPICIOUS_CLIENT", "Suspicious client!")

\* the client check runs
client_check_due(allow_external_clients, has_request) ==
    ~allow_external_clients /\ has_request

\* _query_session_from_sid without the check of the active flag
_query_session_from_sid_no_active(session_id, has_request, allow_external_clients, client_ok) ==
    IF ~session_id.is_int
    THEN [error |-> _raise_integrity_check_error, log |-> <<>>,
          session |-> NoSession, client |-> "none"]
    ELSE
    LET session == session_get_by_id(session_id.v)
    IN  IF session = NoSession
        THEN [error |-> _raise_integrity_check_error,
              log |-> <<"session.get_by_id">>, session |-> NoSession,
              client |-> "none"]
        ELSE IF ~allow_external_clients /\ has_request
        THEN [error |-> IF client_ok THEN NoResult
                        ELSE ApiErrorException("SUSPICIOUS_CLIENT", "Suspicious client!"),
              log |-> <<"session.get_by_id", "check_client">>, session |-> session,
              client |-> IF client_ok THEN "ok" ELSE "mismatch"]
        ELSE [error |-> NoResult, log |-> <<"session.get_by_id">>,
              session |-> session, client |-> "none"]

\* _query_session_from_sid with the client check before the look at the
\* active flag
_query_session_from_sid_client_first(session_id, has_request, allow_external_clients, client_ok) ==
    IF ~session_id.is_int
    THEN [error |-> _raise_integrity_check_error, log |-> <<>>,
          session |-> NoSession, client |-> "none"]
    ELSE
    LET session == session_get_by_id(session_id.v)
    IN  IF session = NoSession
        THEN [error |-> _raise_integrity_check_error,
              log |-> <<"session.get_by_id">>, session |-> NoSession,
              client |-> "none"]
        ELSE IF client_check_due(allow_external_clients, has_request)
        THEN [error |-> IF ~client_ok THEN SuspiciousClient
                        ELSE IF ~session.is_active THEN SessionClosedError
                        ELSE NoResult,
              log |-> <<"session.get_by_id", "check_client">>, session |-> session,
              client |-> IF client_ok THEN "ok" ELSE "mismatch"]
        ELSE IF ~session.is_active
        THEN [error |-> SessionClosedError,
              log |-> <<"session.get_by_id">>, session |-> session,
              client |-> "none"]
        ELSE [error |-> NoResult, log |-> <<"session.get_by_id">>,
              session |-> session, client |-> "none"]

\* _query_session_from_sid with the look at the active flag inside the block
\* of the client check
_query_session_from_sid_active_in_client_block(session_id, has_request, allow_external_clients, client_ok) ==
    IF ~session_id.is_int
    THEN [error |-> _raise_integrity_check_error, log |-> <<>>,
          session |-> NoSession, client |-> "none"]
    ELSE
    LET session == session_get_by_id(session_id.v)
    IN  IF session = NoSession
        THEN [error |-> _raise_integrity_check_error,
              log |-> <<"session.get_by_id">>, session |-> NoSession,
              client |-> "none"]
        ELSE IF client_check_due(allow_external_clients, has_request)
        THEN IF ~session.is_active
             THEN [error |-> SessionClosedError,
                   log |-> <<"session.get_by_id">>, session |-> session,
                   client |-> "none"]
             ELSE [error |-> IF client_ok THEN NoResult ELSE SuspiciousClient,
                   log |-> <<"session.get_by_id", "check_client">>,
                   session |-> session,
                   client |-> IF client_ok THEN "ok" ELSE "mismatch"]
        ELSE [error |-> NoResult, log |-> <<"session.get_by_id">>,
              session |-> session, client |-> "none"]

\* _query_session_from_sid: client_ok is the answer of the client check
_query_session_from_sid(session_id, has_request, allow_external_clients, client_ok) ==
    IF ~session_id.is_int
    THEN [error |-> _raise_integrity_check_error, log |-> <<>>,
          session |-> NoSession, client |-> "none"]
    ELSE
    LET session == session_get_by_id(session_id.v)
    IN  IF session = NoSession
        THEN [error |-> _raise_integrity_check_error,
              log |-> <<"session.get_by_id">>, session |-> NoSession,
              client |-> "none"]
        ELSE IF ~session.is_active
        THEN [error |-> SessionClosedError,
              log |-> <<"session.get_by_id">>, session |-> session,
              client |-> "none"]
        ELSE IF client_check_due(allow_external_clients, has_request)
        THEN [error |-> IF client_ok THEN NoResult ELSE SuspiciousClient,
              log |-> <<"session.get_by_id", "check_client">>, session |-> session,
              client |-> IF client_ok THEN "ok" ELSE "mismatch"]
        ELSE [error |-> NoResult, log |-> <<"session.get_by_id">>,
              session |-> session, client |-> "none"]

\* signed_decode without the signature check
signed_decode_unchecked(cls, token, session, t) ==
    LET d == decode(cls, token, session.token_secret, t)
    IN  IF d.raised THEN [error |-> d.error, token |-> NoToken]
        ELSE [error |-> NoResult, token |-> d.token]

\* the signed decode and the signature check of _decode_token
signed_decode(cls, token, session, t) ==
    LET d == decode(cls, token, session.token_secret, t)
    IN  IF d.raised THEN [error |-> d.error, token |-> NoToken]
        ELSE IF ~d.token.signature_is_valid
        THEN [error |-> InvalidSignatureError, token |-> NoToken]
        ELSE [error |-> NoResult, token |-> d.token]

\* the extra check of query_auth_data_from_token in session-only mode
session_type_check(only_session_token, token) ==
    IF only_session_token /\ token.type # "session"
    THEN _raise_integrity_check_error ELSE NoResult

SessionStep ==
    /\ pc = "session"
    /\ \E client_ok \in BOOLEAN :
        LET cls == token_type_of(req.only_session_token)
            q == _query_session_from_sid(auth.token.sid, req.entry # "token",
                                         auth.allow_external_clients, client_ok)
            d == signed_decode(cls, req.token, q.session, now)
            c == session_type_check(req.only_session_token, d.token)
        IN  IF q.error # NoResult
            THEN /\ log' = log \o q.log
                 /\ auth' = [auth EXCEPT !.session = q.session, !.client = q.client]
                 /\ Finish(req.entry, q.error)
            ELSE IF d.error # NoResult
            THEN /\ log' = log \o q.log \o <<"decode">>
                 /\ auth' = [auth EXCEPT !.session = q.session, !.client = q.client]
                 /\ Finish(req.entry, d.error)
            ELSE IF c # NoResult
            THEN /\ log' = log \o q.log \o <<"decode">>
                 /\ auth' = [auth EXCEPT !.session = q.session, !.client = q.client]
                 /\ Finish(req.entry, c)
            ELSE /\ log' = log \o q.log \o <<"decode">>
                 /\ auth' = [auth EXCEPT !.session = q.session, !.client = q.client,
                                          !.token = d.token]
                 /\ pc' = "user"
                 /\ UNCHANGED <<pipe, result>>
    /\ UNCHANGED <<sessions, users, now, req>>

(***************************************************************************)
(* _query_auth_data                                                        *)
(***************************************************************************)
DeactivatedMessage ==
    "User account currently deactivated and this method does not allow deactivated users!"

\* user_checks without the comparison of the session's owner
user_checks_no_owner(user, session, allow_deactivated) ==
    IF user = NoUser
    THEN _raise_integrity_check_error
    ELSE IF ~user.is_active /\ ~allow_deactivated
    THEN ApiErrorException("USER_DEACTIVATED", DeactivatedMessage)
    ELSE NoResult

\* user_checks refusing a deactivated user whatever allow_deactivated
user_checks_always_refuse(user, session, allow_deactivated) ==
    IF user = NoUser \/ session.owner_id # user.id
    THEN _raise_integrity_check_error
    ELSE IF ~user.is_active
    THEN ApiErrorException("USER_DEACTIVATED", DeactivatedMessage)
    ELSE NoResult

\* the checks of _query_auth_data on the user found for the token's subject
user_checks(user, session, allow_deactivated) ==
    IF user = NoUser \/ session.owner_id # user.id
    THEN _raise_integrity_check_error
    ELSE IF ~user.is_active /\ ~allow_deactivated
    THEN ApiErrorException("USER_DEACTIVATED", DeactivatedMessage)
    ELSE NoResult

\* UserStep writing the online time before the checks on the user
UserStep_update_first ==
    /\ pc = "user"
    /\ LET user == user_get_by_id(auth.token.sub)
           e == user_checks(user, auth.session, req.allow_deactivated)
           written == IF user # NoUser /\ req.trigger_online_update
                      THEN [users EXCEPT ![user.id].time_online = now]
                      ELSE users
       IN  IF e # NoResult
           THEN /\ log' = Append(log, "user.get_by_id")
                /\ auth' = [auth EXCEPT !.user = user]
                /\ users' = written
                /\ Finish(req.entry, e)
           ELSE /\ users' = written
                /\ log' = IF req.trigger_online_update
                          THEN log \o <<"user.get_by_id", "commit">>
                          ELSE Append(log, "user.get_by_id")
                /\ auth' = [auth EXCEPT !.user = user]
                /\ Finish(req.entry, Returned)
    /\ UNCHANGED <<sessions, now, req>>

UserStep ==
    /\ pc = "user"
    /\ LET user == user_get_by_id(auth.token.sub)
           e == user_checks(user, auth.session, req.allow_deactivated)
       IN  IF e # NoResult
           THEN /\ log' = Append(log, "user.get_by_id")
                /\ auth' = [auth EXCEPT !.user = user]
                /\ users' = users
                /\ Finish(req.entry, e)
           ELSE /\ IF req.trigger_online_update
                   THEN /\ users' = [users EXCEPT ![user.id].time_online = now]
                        /\ log' = log \o <<"user.get_by_id", "commit">>
                   ELSE /\ users' = users
                        /\ log' = Append(log, "user.get_by_id")
                /\ auth' = [auth EXCEPT !.user = user]
                /\ Finish(req.entry, Returned)
    /\ UNCHANGED <<sessions, now, req>>

\* the caller has the outcome; the request-scoped context is dropped
Respond ==
    /\ pc = "done"
    /\ pc' = "idle"
    /\ req' = NoReq
    /\ auth' = NoAuth
    /\ log' = <<>>
    /\ pipe' = NoResult
    /\ result' = NoResult
    /\ UNCHANGED <<sessions, users, now>>

(***************************************************************************)
(* The environment                                                         *)
(***************************************************************************)
\* time passes
Tick ==
    /\ now < MaxTime
    /\ now' = now + 1
    /\ UNCHANGED <<sessions, users, pc, req, auth, log, pipe, result>>

\* logout: the session is closed
CloseSession ==
    /\ \E s \in SessionIds :
        /\ sessions[s].is_active
        /\ sessions' = [sessions EXCEPT ![s].is_active = FALSE]
    /\ UNCHANGED <<users, now, pc, req, auth, log, pipe, result>>

\* an administrator deactivates a user
DeactivateUser ==
    /\ \E u \in UserIds :
        /\ users[u].is_active
        /\ users' = [users EXCEPT ![u].is_active = FALSE]
    /\ UNCHANGED <<sessions, now, pc, req, auth, log, pipe, result>>

Next ==
    \/ StartRequest
    \/ SessionStep
    \/ UserStep
    \/ Respond
    \/ Tick
    \/ CloseSession
    \/ DeactivateUser

Spec == Init /\ [][Next]_vars


(***************************************************************************)
(* The permission check on its own: every scope text and requirement       *)
(***************************************************************************)
BoundedSeq(S, n) == UNION {[1..k -> S] : k \in 0..n}

InitPermissions ==
    /\ sessions = [s \in SessionIds |->
                     [id |-> s, owner_id |-> 1, token_secret |-> SessionSecret,
                      is_active |-> TRUE]]
    /\ users = [u \in UserIds |->
                  [id |-> u, is_active |-> (u = 1), time_online |-> -1]]
    /\ now = 0
    /\ pc = "perm"
    /\ \E scope \in BoundedSeq(Chunks, MaxScopeLen),
          required \in BoundedSeq(Permission, MaxLen) :
        req = [scope |-> scope, required_permissions |-> required]
    /\ auth = NoAuth
    /\ log = <<>>
    /\ pipe = NoResult
    /\ result = NoResult

\* a call of _query_scope_permissions
CheckPermissions ==
    /\ pc = "perm"
    /\ LET q == _query_scope_permissions(req.scope, req.required_permissions)
       IN  /\ auth' = [auth EXCEPT !.permissions = q.permissions]
           /\ pipe' = IF q.raised THEN q.error ELSE Returned
    /\ pc' = "perm_done"
    /\ result' = pipe'
    /\ UNCHANGED <<sessions, users, now, req, log>>

NextPermissions == CheckPermissions

SpecPermissions == InitPermissions /\ [][NextPermissions]_vars

(***************************************************************************)
(* Properties                                                              *)
(***************************************************************************)
TokenExceptions == {"TokenInvalidError", "TokenWrongTypeError", "TokenExpiredError",
                    "TokenInvalidSignatureError"}

StoreCalls == {"session.get_by_id", "check_client", "user.get_by_id", "commit"}

\* the unsigned decode and the scope check have passed
HeadPassed == pc \in {"session", "user", "done"} /\ auth.token # NoToken

\* the session lookup has found a session
SessionFound == HeadPassed /\ auth.session # NoSession

\* C1: an AuthData is returned only with a token whose signature is valid under
\* the secret of the session its session id names; when the signed decode
\* returns a token whose signature does not match that secret the pipeline
\* ends with AUTH_INVALID_TOKEN and no AuthData, whatever the payload claims.
C1_SignatureBindsSession ==
    /\ (pc = "done" /\ pipe.kind = "auth") =>
          /\ auth.token.signature_is_valid
          /\ req.token.sid.is_int
          /\ req.token.sid.v \in DOMAIN sessions
          /\ auth.session.id = req.token.sid.v
          /\ req.token.sig = sessions[req.token.sid.v].token_secret
    /\ (/\ pc \in {"user", "done"}
        /\ InSeq("decode", log)
        /\ pipe.exc \notin TokenExceptions
        /\ req.token.sig # auth.session.token_secret) =>
          /\ pc = "done"
          /\ pipe = InvalidSignatureError
          /\ pipe.code = "AUTH_INVALID_TOKEN"
          /\ result.kind \notin {"auth", "pair_true"}

C1_Witness ==
    /\ pc = "done"
    /\ InSeq("decode", log)
    /\ req.token.sig = ForeignKey
    /\ req.token.sub = 1
    /\ req.token.scope = <<"oauth_clients">>
    /\ pipe.message = SignatureMessage

\* C2: an AuthData is returned only with an existing user whose id is the
\* token's subject and the session's owner; a missing user or a session owned
\* by another user ends the pipeline with the integrity failure.
C2_UserOwnsSession ==
    /\ (pc = "done" /\ pipe.kind = "auth") =>
          /\ auth.user # NoUser
          /\ auth.user.id \in DOMAIN users
          /\ auth.user.id = req.token.sub
          /\ auth.session.owner_id = auth.user.id
    /\ (/\ pc = "done"
        /\ InSeq("user.get_by_id", log)
        /\ (req.token.sub \notin DOMAIN users
              \/ auth.session.owner_id # req.token.sub)) =>
          /\ pipe = _raise_integrity_check_error
          /\ result.kind \notin {"auth", "pair_true"}

C2_Witness ==
    /\ pc = "done"
    /\ InSeq("user.get_by_id", log)
    /\ req.token.sub = 2
    /\ auth.user.id = 2
    /\ auth.session.owner_id = 1
    /\ pipe = _raise_integrity_check_error

\* C3: when permissions are required and the scope the token is read with
\* does not grant them all, the pipeline raises InsufficientPermissions, and
\* a run that ends so has made no session lookup, user lookup or client check.
C3_PermissionsBeforeSessionIO ==
    /\ (pc = "done" /\ pipe.code = "AUTH_INSUFFICIENT_PERMISSIONS") =>
          \A i \in 1..Len(log) : log[i] \notin StoreCalls
    /\ (/\ pc # "idle"
        /\ req.token.form = "jwt"
        /\ pipe.exc \notin TokenExceptions
        /\ \E i \in 1..Len(req.required_permissions) :
              ~InSeq(req.required_permissions[i],
                     parse_permissions_from_scope(
                         IF req.only_session_token THEN <<>> ELSE req.token.scope))) =>
          /\ pc = "done"
          /\ pipe.kind = "error"
          /\ pipe.code = "AUTH_INSUFFICIENT_PERMISSIONS"
          /\ log = <<"decode_unsigned">>

C3_Witness ==
    /\ pc = "done"
    /\ pipe.code = "AUTH_INSUFFICIENT_PERMISSIONS"
    /\ req.required_permissions = <<"oauth_clients">>
    /\ req.token.scope = <<"noexpire">>
    /\ req.token.sid = IntSid(1)
    /\ log = <<"decode_unsigned">>

\* the elements of R that are not in H, in the order of R
RECURSIVE MissingOf(_, _)
MissingOf(R, H) ==
    IF R = <<>> THEN <<>>
    ELSE (IF \E i \in 1..Len(H) : H[i] = Head(R) THEN <<>> ELSE <<Head(R)>>)
         \o MissingOf(Tail(R), H)

\* the names a joined text lists
ListedIn(text) == SelectSeq(text, LAMBDA c : c # ", ")

\* C4: _query_scope_permissions raises InsufficientPermissions exactly when
\* some required permission is not held; the required_scope it carries lists
\* the required permissions that are not held, in the order required; when
\* nothing is missing it returns the held permissions and raises nothing.
C4_PermissionCheck ==
    pc = "perm_done" =>
        LET R == req.required_permissions
            H == parse_permissions_from_scope(req.scope)
            M == MissingOf(R, H)
        IN  /\ (pipe.kind = "error") <=> (M # <<>>)
            /\ M # <<>> =>
                  /\ pipe.exc = "ApiErrorException"
                  /\ pipe.code = "AUTH_INSUFFICIENT_PERMISSIONS"
                  /\ ListedIn(pipe.required_scope) = M
                  /\ Len(pipe.required_scope) = 2 * Len(M) - 1
            /\ M = <<>> => pipe = Returned /\ auth.permissions = H
            /\ (R = <<"oauth_clients">> /\ H = <<>>) =>
                  pipe.required_scope = <<"oauth_clients">>

C4_Witness ==
    /\ pc = "perm_done"
    /\ req.required_permissions = <<"oauth_clients", "noexpire">>
    /\ req.scope = <<"noexpire", ",", "x">>
    /\ pipe.required_scope = <<"oauth_clients">>

\* C5: a session found inactive ends the pipeline with AUTH_INVALID_TOKEN
\* "session was closed" and no AuthData; the session of a returned AuthData
\* was active when it was looked up.
C5_ClosedSessionRejected ==
    /\ (SessionFound /\ ~auth.session.is_active) =>
          /\ pc = "done"
          /\ pipe = SessionClosedError
          /\ pipe.code = "AUTH_INVALID_TOKEN"
          /\ result.kind \notin {"auth", "pair_true"}
    /\ (pc = "done" /\ pipe.kind = "auth") => auth.session.is_active

C5_Witness ==
    /\ pc = "done"
    /\ SessionFound
    /\ ~auth.session.is_active
    /\ req.token.sig = SessionSecret
    /\ pipe.message = SessionClosedMessage


\* one of the conditions the pipeline treats as an integrity failure was met:
\* a session id that is no integer, no session for the id, no user for the
\* subject, a session owned by another user
IntegrityConditionMet ==
    /\ pc = "done"
    /\ HeadPassed
    /\ \/ ~auth.token.sid.is_int
       \/ (log[Len(log)] = "session.get_by_id" /\ auth.session = NoSession)
       \/ (InSeq("user.get_by_id", log)
             /\ (auth.user = NoUser \/ auth.session.owner_id # auth.user.id))

\* the errors of the ordinary failures of a token: closed session, bad signature
UserFacingAuthErrors == {SessionClosedError, InvalidSignatureError}

C7_DeactivatedUser ==
    /\ (/\ pc = "done"
        /\ auth.user # NoUser
        /\ auth.session.owner_id = auth.user.id
        /\ ~auth.user.is_active) =>
          IF req.allow_deactivated
          THEN pipe = Returned
          ELSE pipe = ApiErrorException("USER_DEACTIVATED", DeactivatedMessage)
    /\ (pc = "done" /\ pipe.kind = "auth" /\ ~req.allow_deactivated) =>
          auth.user.is_active

C7_Witness ==
    /\ pc = "done"
    /\ auth.user.id = 1
    /\ ~auth.user.is_active
    /\ req.allow_deactivated
    /\ pipe.kind = "auth"

\* C8 as stated: try_query_auth_data_from_request gives its caller a pair for
\* every outcome of the pipeline, (True, context) exactly when the raising
\* variant returns the context and (False, None) for every failure.
C8_TryNeverPropagates ==
    (pc = "done" /\ req.entry = "try") =>
        /\ result.kind \in {"pair_true", "pair_false"}
        /\ (result.kind = "pair_true") <=> (pipe.kind = "auth")

\* C9: a request without a token ends with AuthRequired before any decode and
\* any store access.
C9_NoTokenAuthRequired ==
    (pc \in {"session", "user", "done"} /\ req.token.form = "empty") =>
        /\ pc = "done"
        /\ pipe = ApiErrorException("AUTH_REQUIRED", "Authentication required!")
        /\ log = <<>>
        /\ auth = NoAuth

C9_Witness ==
    /\ pc = "done"
    /\ req.entry = "request"
    /\ req.token.form = "empty"
    /\ pipe.code = "AUTH_REQUIRED"

\* C10: for a request whose session is found active the client check runs
\* exactly when allow_external_clients was not passed and the permissions
\* parsed for the token hold no noexpire; a mismatch it reports ends the
\* pipeline with the suspicious-client error and no AuthData.
C10_ClientCheckCondition ==
    (SessionFound /\ auth.session.is_active /\ req.entry # "token") =>
        /\ InSeq("check_client", log) <=>
              /\ ~req.allow_external_clients
              /\ ~InSeq("noexpire",
                        parse_permissions_from_scope(
                            IF req.only_session_token THEN <<>> ELSE req.token.scope))
        /\ (auth.client # "none") <=> InSeq("check_client", log)
        /\ auth.client = "mismatch" =>
              /\ pc = "done"
              /\ pipe = SuspiciousClient
              /\ result.kind \notin {"auth", "pair_true"}

C10_Witness ==
    /\ pc = "done"
    /\ req.entry = "request"
    /\ auth.session.is_active
    /\ req.token.scope = <<"oauth_clients">>
    /\ auth.client = "mismatch"
    /\ pipe = SuspiciousClient

\* C11: a step of the pipeline never changes the session store; it changes the
\* user store exactly when it ends a run with an AuthData and
\* trigger_online_update is set, and then it writes the clock to the
\* time_online of that user alone and commits; no other run commits.
C11_OnlineUpdateFrame ==
    [][pc' # pc =>
          /\ sessions' = sessions
          /\ IF pc = "user" /\ pipe'.kind = "auth" /\ req.trigger_online_update
             THEN /\ users' = [users EXCEPT ![auth.token.sub].time_online = now]
                  /\ log' = log \o <<"user.get_by_id", "commit">>
             ELSE /\ users' = users
                  /\ ~InSeq("commit", log')]_vars

C11_Witness ==
    /\ pc = "done"
    /\ pipe.kind = "auth"
    /\ req.trigger_online_update
    /\ log[Len(log)] = "commit"
    /\ now = 1
    /\ users[1].time_online = 1

(***************************************************************************)
(* _get_token_from_request on its own: every placement of tokens           *)
(***************************************************************************)
\* the stores before any request
InitStore ==
    /\ sessions = [s \in SessionIds |->
                     [id |-> s, owner_id |-> 1, token_secret |-> SessionSecret,
                      is_active |-> TRUE]]
    /\ users = [u \in UserIds |->
                  [id |-> u, is_active |-> (u = 1), time_online |-> -1]]
    /\ now = 0

\* what a header or a query parameter may hold: nothing, a string that is no
\* token, an access token, a session token
TransportValues ==
    {EmptyToken, GarbageToken,
     [form |-> "jwt", type |-> "access", sub |-> 1, sid |-> IntSid(1),
      scope |-> <<"oauth_clients">>, exp |-> TokenExp, sig |-> SessionSecret],
     [form |-> "jwt", type |-> "session", sub |-> 1, sid |-> IntSid(1),
      scope |-> <<>>, exp |-> TokenExp, sig |-> SessionSecret]}

InitExtract ==
    /\ InitStore
    /\ pc = "extract"
    /\ \E header \in TransportValues, access_token \in TransportValues,
          session_token \in TransportValues, only_session_token \in BOOLEAN :
        req = [Authorization |-> header, access_token |-> access_token,
               session_token |-> session_token,
               only_session_token |-> only_session_token]
    /\ auth = NoAuth
    /\ log = <<>>
    /\ pipe = NoResult
    /\ result = NoResult

\* a call of _get_token_from_request
ExtractToken ==
    /\ pc = "extract"
    /\ pc' = "extracted"
    /\ result' = _get_token_from_request(req.Authorization, req.access_token,
                                         req.session_token, req.only_session_token)
    /\ UNCHANGED <<sessions, users, now, req, auth, log, pipe>>

NextExtract == ExtractToken

SpecExtract == InitExtract /\ [][NextExtract]_vars

\* C12: in access mode the token is the Authorization header when that is
\* not empty and the access_token parameter otherwise; in session-only mode it
\* is the session_token parameter, whatever the header and access_token hold.
C12_TokenTransport ==
    pc = "extracted" =>
        IF req.only_session_token
        THEN result = req.session_token
        ELSE /\ req.Authorization # EmptyToken => result = req.Authorization
             /\ req.Authorization = EmptyToken => result = req.access_token

C12_Witness ==
    /\ pc = "extracted"
    /\ ~req.only_session_token
    /\ req.Authorization.type = "access"
    /\ req.access_token = GarbageToken
    /\ req.session_token.type = "session"
    /\ result = req.Authorization

(***************************************************************************)
(* The token codec on its own: a token is encoded, time passes, and the    *)
(* string is decoded by the codec, by the head of the pipeline and by the  *)
(* email confirmation endpoint                                             *)
(***************************************************************************)
\* longest time-to-live of an encoded token
MaxTtl == 1

\* settings.cft_secret, the key of confirmation tokens
CftSecret == "cft"

\* encode that leaves the token without a signature
encode_no_signature(type, sub, sid, scope, iat, ttl, key) ==
    [form |-> "jwt", type |-> type, sub |-> sub, sid |-> sid, scope |-> scope,
     exp |-> iat + ttl, sig |-> NoKey]

\* encode(fields, key) at time iat: the expiration is the issue time plus the
\* time-to-live, the signature is made with the key
encode(type, sub, sid, scope, iat, ttl, key) ==
    [form |-> "jwt", type |-> type, sub |-> sub, sid |-> sid, scope |-> scope,
     exp |-> iat + ttl, sig |-> key]

\* decode(token, key) of a caller whose protocol takes an invalid signature
\* as TokenInvalidSignatureError
decode_strict(cls, token, key, t) ==
    LET d == decode(cls, token, key, t)
    IN  IF ~d.raised /\ ~d.token.signature_is_valid
        THEN [raised |-> TRUE, error |-> TokenException("TokenInvalidSignatureError"),
              token |-> NoToken]
        ELSE d

\* api_error(code, message)
api_error(code, message) ==
    [kind |-> "response", exc |-> "", code |-> code, message |-> message,
     required_scope |-> <<>>]

\* handlers that answer every token exception with the invalid-token code
handler_response_one_code(e) ==
    IF e.exc = "ApiErrorException"
    THEN [kind |-> "response", exc |-> "", code |-> e.code, message |-> e.message,
          required_scope |-> e.required_scope]
    ELSE api_error("AUTH_INVALID_TOKEN", "Token invalid!")

\* the response the exception handlers make of an exception
handler_response(e) ==
    IF e.exc = "ApiErrorException"
    THEN [kind |-> "response", exc |-> "", code |-> e.code, message |-> e.message,
          required_scope |-> e.required_scope]
    ELSE IF e.exc = "TokenWrongTypeError"
    THEN api_error("AUTH_INVALID_TOKEN", "Token has wrong type!")
    ELSE IF e.exc = "TokenExpiredError"
    THEN api_error("AUTH_EXPIRED_TOKEN", "Token has been expired!")
    ELSE IF e.exc = "TokenInvalidSignatureError"
    THEN api_error("AUTH_INVALID_TOKEN", "Token has invalid signature!")
    ELSE api_error("AUTH_INVALID_TOKEN", "Token invalid!")

CftInvalidMessage ==
    "Confirmation token not valid, mostly due to corrupted link. Try resend confirmation again."
CftExpiredMessage == "Confirmation token expired. Try resend confirmation again."
CftWrongTypeMessage ==
    "Expected token to be a confirmation token, not another type of token."

\* the try block with one message for every exception of the decode
email_confirmation_decode_one_message(cft, t) ==
    LET d == decode_strict("email", cft, CftSecret, t)
    IN  IF ~d.raised THEN [response |-> NoResult, token |-> d.token]
        ELSE [response |-> api_error("EMAIL_CONFIRMATION_TOKEN_INVALID", CftInvalidMessage),
              token |-> NoToken]

\* the try block of method_email_confirmation_confirm: the confirmation token
\* or the error response of the except clause that caught
email_confirmation_decode(cft, t) ==
    LET d == decode_strict("email", cft, CftSecret, t)
    IN  IF ~d.raised THEN [response |-> NoResult, token |-> d.token]
        ELSE IF d.error.exc \in {"TokenInvalidError", "TokenInvalidSignatureError"}
        THEN [response |-> api_error("EMAIL_CONFIRMATION_TOKEN_INVALID", CftInvalidMessage),
              token |-> NoToken]
        ELSE IF d.error.exc = "TokenExpiredError"
        THEN [response |-> api_error("EMAIL_CONFIRMATION_TOKEN_INVALID", CftExpiredMessage),
              token |-> NoToken]
        ELSE [response |-> api_error("EMAIL_CONFIRMATION_TOKEN_INVALID", CftWrongTypeMessage),
              token |-> NoToken]

CodecKeys == {SessionSecret, CftSecret}
CodecSubjects == {1, 2}
CodecSids == {IntSid(1), StrSid}
CodecScopes == {<<>>, <<"oauth_clients">>}

\* no decode yet
NoDecode == [cls |-> "", key |-> NoKey, at |-> -1, raised |-> FALSE,
             error |-> NoResult, token |-> NoToken]

InitCodec ==
    /\ InitStore
    /\ pc = "codec"
    /\ req = [type |-> "", sub |-> 0, sid |-> StrSid, scope |-> <<>>, iat |-> 0,
              ttl |-> 0, key |-> NoKey, token |-> EmptyToken, at |-> -1,
              only_session_token |-> FALSE]
    /\ auth = NoAuth
    /\ log = <<>>
    /\ pipe = NoDecode
    /\ result = NoDecode

\* a token is issued: the constructor and encode
Encode ==
    /\ pc = "codec"
    /\ \E type \in TokenTypes, sub \in CodecSubjects, sid \in CodecSids,
          scope \in CodecScopes, ttl \in 0..MaxTtl, key \in CodecKeys :
        req' = [type |-> type, sub |-> sub, sid |-> sid, scope |-> scope,
                iat |-> now, ttl |-> ttl, key |-> key,
                token |-> encode(type, sub, sid, scope, now, ttl, key),
                at |-> -1, only_session_token |-> FALSE]
    /\ pc' = "encoded"
    /\ UNCHANGED <<sessions, users, now, auth, log, pipe, result>>

\* the string is decoded by some token class with some key or none; the
\* decode before it is kept in pipe
Decode ==
    /\ pc \in {"encoded", "decoded"}
    /\ \E cls \in TokenTypes, key \in CodecKeys \cup {NoKey} :
        LET d == decode(cls, req.token, key, now)
        IN  result' = [cls |-> cls, key |-> key, at |-> now, raised |-> d.raised,
                       error |-> d.error, token |-> d.token]
    /\ pipe' = result
    /\ pc' = IF pc = "encoded" THEN "decoded" ELSE "decoded_twice"
    /\ UNCHANGED <<sessions, users, now, req, auth, log>>

\* the string is given to the pipeline as an access or a session token: the
\* head of _decode_token, and the handlers' response to what it raises
PipelineHead ==
    /\ pc = "encoded"
    /\ \E only_session_token \in BOOLEAN :
        LET h == decode_head(req.token, token_type_of(only_session_token), <<>>,
                             FALSE, now)
        IN  /\ req' = [req EXCEPT !.at = now,
                                  !.only_session_token = only_session_token]
            /\ auth' = h.auth
            /\ log' = h.log
            /\ pipe' = h.error
            /\ result' = IF h.error = NoResult THEN NoResult
                         ELSE handler_response(h.error)
    /\ pc' = "head_done"
    /\ UNCHANGED <<sessions, users, now>>

\* the string is given to _emailConfirmation.confirm as its cft
EmailConfirmDecode ==
    /\ pc = "encoded"
    /\ LET c == email_confirmation_decode(req.token, now)
       IN  /\ auth' = [NoAuth EXCEPT !.token = c.token]
           /\ result' = c.response
    /\ req' = [req EXCEPT !.at = now]
    /\ pc' = "cft_done"
    /\ UNCHANGED <<sessions, users, now, log, pipe>>

NextCodec ==
    \/ Encode
    \/ Decode
    \/ PipelineHead
    \/ EmailConfirmDecode
    \/ Tick

SpecCodec == InitCodec /\ [][NextCodec]_vars

(***************************************************************************)
(* Properties of the token codec                                           *)
(***************************************************************************)
\* the latest decode was made by the token's own class
OwnClass == pc \in {"decoded", "decoded_twice"} /\ result.cls = req.type
\* the time after which the encoded token is expired
Expiry == req.iat + req.ttl

C14_WitnessNoKey ==
    /\ pc = "decoded" /\ OwnClass /\ result.key = NoKey /\ ~result.raised
    /\ ~result.token.signature_is_valid /\ result.token.sub = req.sub

\* C15: a token of another type raises TokenWrongTypeError, whatever its
\* expiry and its signature: from the decoder of any class, from the head of
\* the pipeline, and from the email confirmation endpoint, which answers with
\* its wrong-type message
C15_WrongTypeFirst ==
    /\ (pc \in {"decoded", "decoded_twice"} /\ result.cls # req.type)
          => /\ result.raised
             /\ result.error = TokenException("TokenWrongTypeError")
    /\ (pc = "head_done" /\ req.type # token_type_of(req.only_session_token))
          => /\ pipe = TokenException("TokenWrongTypeError")
             /\ auth = NoAuth
    /\ (pc = "cft_done" /\ req.type # "email")
          => /\ result = api_error("EMAIL_CONFIRMATION_TOKEN_INVALID",
                                   CftWrongTypeMessage)
             /\ auth.token = NoToken

\* an email token, expired and read with another key, at the access decoder
C15_Witness ==
    /\ pc = "decoded" /\ req.type = "email" /\ result.cls = "access"
    /\ result.at > Expiry /\ result.key # req.key
    /\ result.error.exc = "TokenWrongTypeError"

\* an access token, expired and signed with another key, at the endpoint
C15_WitnessEndpoint ==
    /\ pc = "cft_done" /\ req.type = "access" /\ req.at > Expiry
    /\ req.key # CftSecret
    /\ result.message = CftWrongTypeMessage

\* C16: a token decodes at every time up to its issue time plus its
\* time-to-live and raises TokenExpiredError at every later time; the pipeline
\* gives no AuthData for an expired access or session token, and the handlers
\* report it with the expired-token code, not the invalid-token code
C16_ExpiryBoundary ==
    /\ OwnClass
          => /\ result.raised <=> result.at > Expiry
             /\ result.raised => result.error = TokenException("TokenExpiredError")
    /\ (pc = "head_done" /\ req.type = token_type_of(req.only_session_token)
           /\ req.at > Expiry)
          => /\ pipe = TokenException("TokenExpiredError")
             /\ auth = NoAuth
             /\ result.code = "AUTH_EXPIRED_TOKEN"
             /\ result.code # "AUTH_INVALID_TOKEN"
    /\ (pc = "head_done" /\ req.type = token_type_of(req.only_session_token)
           /\ req.at <= Expiry)
          => pipe.exc # "TokenExpiredError"

\* decoded at the very time of expiry
C16_Witness ==
    /\ OwnClass /\ req.ttl = 0 /\ req.iat = 1 /\ result.at = Expiry
    /\ ~result.raised

C16_WitnessExpired ==
    /\ pc = "head_done" /\ req.type = "session" /\ req.only_session_token
    /\ req.at = Expiry + 1
    /\ result.code = "AUTH_EXPIRED_TOKEN"

(***************************************************************************)
(* The scope parser on its own: a scope text is parsed and normalized      *)
(***************************************************************************)
\* longest scope text (in chunks) given to the parser
MaxScopeText == 4

\* the names of the members of Permission; Permission[name] raises KeyError
\* for any other name
MemberNames == {"oauth_clients", "noexpire"}

\* Permission[permission] raises for some segment the filter lets through
LookupRaises(segs) ==
    \E i \in 1..Len(segs) : Recognized(segs[i]) /\ segs[i][1] \notin MemberNames

\* normalize_scope: the values of the parsed permissions, joined
normalize_scope(scope) ==
    Join(parse_permissions_from_scope(scope), SCOPE_PERMISSION_SEPARATOR)

InitScope ==
    /\ InitStore
    /\ pc = "scope"
    /\ \E scope \in BoundedSeq(Chunks, MaxScopeText) :
        req = [scope |-> scope]
    /\ auth = NoAuth
    /\ log = <<>>
    /\ pipe = NoResult
    /\ result = [raised |-> FALSE, permissions |-> <<>>, normalized |-> <<>>]

\* a call of parse_permissions_from_scope and a call of normalize_scope
ParseScope ==
    /\ pc = "scope"
    /\ result' = [raised |-> LookupRaises(Split(req.scope)),
                  permissions |-> parse_permissions_from_scope(req.scope),
                  normalized |-> normalize_scope(req.scope)]
    /\ pc' = "parsed"
    /\ UNCHANGED <<sessions, users, now, req, auth, log, pipe>>

\* the normalized scope is given back to the parser
ParseAgain ==
    /\ pc = "parsed"
    /\ req' = [scope |-> result.normalized]
    /\ pc' = "scope"
    /\ UNCHANGED <<sessions, users, now, auth, log, pipe, result>>

NextScope ==
    \/ ParseScope
    \/ ParseAgain

SpecScope == InitScope /\ [][NextScope]_vars

\* the places of a text where a recognized name stands alone between
\* separators or the ends of the text
NamePlaces(s) ==
    {i \in 1..Len(s) :
        /\ s[i] \in Permission
        /\ i = 1 \/ s[i - 1] = ","
        /\ i = Len(s) \/ s[i + 1] = ","}

\* C17: parse_permissions_from_scope does not raise; what it returns are the
\* recognized names that stand between separators, in the order they stand in
\* the text, empty and unrecognized segments dropped; "oauth_clients,bogus,"
\* gives [oauth_clients]
C17_NonStrictParse ==
    pc = "parsed" =>
        LET s == req.scope
            p == result.permissions
        IN  /\ ~result.raised
            /\ Len(p) = Cardinality(NamePlaces(s))
            /\ \A i \in NamePlaces(s) :
                   p[Cardinality({j \in NamePlaces(s) : j <= i})] = s[i]
            /\ s = <<"oauth_clients", ",", "x", ",">> => p = <<"oauth_clients">>

C17_Witness ==
    /\ pc = "parsed"
    /\ req.scope = <<"oauth_clients", ",", "x", ",">>
    /\ result.permissions = <<"oauth_clients">>

C17_WitnessOrder ==
    /\ pc = "parsed"
    /\ req.scope = <<"x", "noexpire", ",", "noexpire">>
    /\ result.permissions = <<"noexpire">>

NoDuplicates(p) == \A i, j \in 1..Len(p) : p[i] = p[j] => i = j

\* C18: the parsed permissions hold no permission twice, and neither does the
\* normalized scope
C18_Deduplicated ==
    pc = "parsed" =>
        /\ NoDuplicates(result.permissions)
        /\ NoDuplicates(parse_permissions_from_scope(result.normalized))

(***************************************************************************)
(* The signup and signin validators (app/services/validators/user.py)      *)
(***************************************************************************)
\* len(username) <= 4, len(username) > 16
USERNAME_MIN == 4
USERNAME_MAX == 16
\* len(password) <= 5, len(password) > 64
PASSWORD_MIN == 5
PASSWORD_MAX == 64

\* A username is told by how many lowercase letters, uppercase letters and
\* other characters (digits, underscores) it holds.
UsernameLen(u) == u.lower + u.upper + u.other
\* str.isalpha: not empty and letters only
isalpha(u) == UsernameLen(u) > 0 /\ u.other = 0
\* str.islower: at least one cased character and none of them uppercase
islower(u) == u.lower > 0 /\ u.upper = 0

\* validate_signup_fields with the username checked before the email
validate_signup_fields_username_first(email_taken, username_taken, email_valid, settings, username, password_len) ==
    IF username_taken
    THEN ApiErrorException("AUTH_USERNAME_TAKEN", "Given username is already taken!")
    ELSE IF email_taken
    THEN ApiErrorException("AUTH_EMAIL_TAKEN", "Given email is already taken!")
    ELSE IF settings.signup_validate_email /\ ~email_valid
    THEN ApiErrorException("AUTH_EMAIL_INVALID", "Email invalid!")
    ELSE IF UsernameLen(username) <= USERNAME_MIN
    THEN ApiErrorException("AUTH_USERNAME_INVALID", "Username should be longer than 4!")
    ELSE IF UsernameLen(username) > USERNAME_MAX
    THEN ApiErrorException("AUTH_USERNAME_INVALID", "Username should be shorten than 16!")
    ELSE IF settings.signup_username_reject_nonalpha /\ ~isalpha(username)
    THEN ApiErrorException("AUTH_USERNAME_INVALID",
                           "Username should only contain alphabet characters!")
    ELSE IF settings.signup_username_reject_uppercase /\ ~islower(username)
    THEN ApiErrorException("AUTH_USERNAME_INVALID",
                           "Username should only contain lowercase characters!")
    ELSE IF password_len <= PASSWORD_MIN
    THEN ApiErrorException("AUTH_PASSWORD_INVALID", "Password should be longer than 5!")
    ELSE IF password_len > PASSWORD_MAX
    THEN ApiErrorException("AUTH_PASSWORD_INVALID", "Password should be shorten than 64!")
    ELSE NoResult

\* validate_signup_fields with `<` for `<=` and `>=` for `>` in the length
\* tests
validate_signup_fields_strict_bounds(email_taken, username_taken, email_valid, settings, username, password_len) ==
    IF email_taken
    THEN ApiErrorException("AUTH_EMAIL_TAKEN", "Given email is already taken!")
    ELSE IF username_taken
    THEN ApiErrorException("AUTH_USERNAME_TAKEN", "Given username is already taken!")
    ELSE IF settings.signup_validate_email /\ ~email_valid
    THEN ApiErrorException("AUTH_EMAIL_INVALID", "Email invalid!")
    ELSE IF UsernameLen(username) < USERNAME_MIN
    THEN ApiErrorException("AUTH_USERNAME_INVALID", "Username should be longer than 4!")
    ELSE IF UsernameLen(username) >= USERNAME_MAX
    THEN ApiErrorException("AUTH_USERNAME_INVALID", "Username should be shorten than 16!")
    ELSE IF settings.signup_username_reject_nonalpha /\ ~isalpha(username)
    THEN ApiErrorException("AUTH_USERNAME_INVALID",
                           "Username should only contain alphabet characters!")
    ELSE IF settings.signup_username_reject_uppercase /\ ~islower(username)
    THEN ApiErrorException("AUTH_USERNAME_INVALID",
                           "Username should only contain lowercase characters!")
    ELSE IF password_len < PASSWORD_MIN
    THEN ApiErrorException("AUTH_PASSWORD_INVALID", "Password should be longer than 5!")
    ELSE IF password_len >= PASSWORD_MAX
    THEN ApiErrorException("AUTH_PASSWORD_INVALID", "Password should be shorten than 64!")
    ELSE NoResult

\* validate_signup_fields: the error raised, or NoResult when it returns.
\* email_taken and username_taken are what crud.user answers, email_valid what
\* validate_email(email, verify=False) answers.
validate_signup_fields(email_taken, username_taken, email_valid, settings, username, password_len) ==
    IF email_taken
    THEN ApiErrorException("AUTH_EMAIL_TAKEN", "Given email is already taken!")
    ELSE IF username_taken
    THEN ApiErrorException("AUTH_USERNAME_TAKEN", "Given username is already taken!")
    ELSE IF settings.signup_validate_email /\ ~email_valid
    THEN ApiErrorException("AUTH_EMAIL_INVALID", "Email invalid!")
    ELSE IF UsernameLen(username) <= USERNAME_MIN
    THEN ApiErrorException("AUTH_USERNAME_INVALID", "Username should be longer than 4!")
    ELSE IF UsernameLen(username) > USERNAME_MAX
    THEN ApiErrorException("AUTH_USERNAME_INVALID", "Username should be shorten than 16!")
    ELSE IF settings.signup_username_reject_nonalpha /\ ~isalpha(username)
    THEN ApiErrorException("AUTH_USERNAME_INVALID",
                           "Username should only contain alphabet characters!")
    ELSE IF settings.signup_username_reject_uppercase /\ ~islower(username)
    THEN ApiErrorException("AUTH_USERNAME_INVALID",
                           "Username should only contain lowercase characters!")
    ELSE IF password_len <= PASSWORD_MIN
    THEN ApiErrorException("AUTH_PASSWORD_INVALID", "Password should be longer than 5!")
    ELSE IF password_len > PASSWORD_MAX
    THEN ApiErrorException("AUTH_PASSWORD_INVALID", "Password should be shorten than 64!")
    ELSE NoResult

\* the passwords of the model and their hashes
Passwords == {"p1", "p2"}
HashOf(password) == <<"hash", password>>
\* check_password(password, hashed_password)
check_password(password, hashed_password) == hashed_password = HashOf(password)

\* `user` when crud.user found none
NoAccount == [exists |-> FALSE, password |-> <<>>]

\* validate_signin_fields with an error of its own for a missing user
validate_signin_fields_user_not_found(user, password) ==
    IF ~user.exists
    THEN ApiErrorException("AUTH_INVALID_CREDENTIALS", "User not found.")
    ELSE IF ~check_password(password, user.password)
    THEN ApiErrorException("AUTH_INVALID_CREDENTIALS",
                           "Invalid credentials for authentication.")
    ELSE NoResult

\* validate_signin_fields: the error raised, or NoResult when it returns
validate_signin_fields(user, password) ==
    IF ~user.exists \/ ~check_password(password, user.password)
    THEN ApiErrorException("AUTH_INVALID_CREDENTIALS",
                           "Invalid credentials for authentication.")
    ELSE NoResult

UsernameLengths == {USERNAME_MIN, USERNAME_MIN + 1, USERNAME_MAX, USERNAME_MAX + 1}
PasswordLengths == {PASSWORD_MIN, PASSWORD_MIN + 1, PASSWORD_MAX, PASSWORD_MAX + 1}
Usernames ==
    {[lower |-> n - up - ot, upper |-> up, other |-> ot] :
        n \in UsernameLengths, up \in 0..1, ot \in 0..1}
SignupSettings ==
    [signup_validate_email : BOOLEAN, signup_username_reject_nonalpha : BOOLEAN,
     signup_username_reject_uppercase : BOOLEAN]
Accounts == {NoAccount} \cup {[exists |-> TRUE, password |-> HashOf(p)] : p \in Passwords}

InitValidators ==
    /\ InitStore
    /\ \/ /\ pc = "signup"
          /\ \E email_taken \in BOOLEAN, username_taken \in BOOLEAN,
                email_valid \in BOOLEAN, settings \in SignupSettings,
                username \in Usernames, password_len \in PasswordLengths :
              req = [email_taken |-> email_taken, username_taken |-> username_taken,
                     email_valid |-> email_valid, settings |-> settings,
                     username |-> username, password_len |-> password_len]
       \/ /\ pc = "signin"
          /\ \E user \in Accounts, password \in Passwords :
              req = [user |-> user, password |-> password]
    /\ auth = NoAuth
    /\ log = <<>>
    /\ pipe = NoResult
    /\ result = NoResult

\* a call of validate_signup_fields
ValidateSignup ==
    /\ pc = "signup"
    /\ result' = validate_signup_fields(req.email_taken, req.username_taken,
                                        req.email_valid, req.settings,
                                        req.username, req.password_len)
    /\ pc' = "signup_done"
    /\ UNCHANGED <<sessions, users, now, req, auth, log, pipe>>

\* a call of validate_signin_fields
ValidateSignin ==
    /\ pc = "signin"
    /\ result' = validate_signin_fields(req.user, req.password)
    /\ pc' = "signin_done"
    /\ UNCHANGED <<sessions, users, now, req, auth, log, pipe>>

NextValidators ==
    \/ ValidateSignup
    \/ ValidateSignin

SpecValidators == InitValidators /\ [][NextValidators]_vars

\* the rules of signup in their order: whether the request violates the rule,
\* and the error code of the rule
SignupRules ==
    <<[violated |-> req.email_taken, code |-> "AUTH_EMAIL_TAKEN"],
      [violated |-> req.username_taken, code |-> "AUTH_USERNAME_TAKEN"],
      [violated |-> req.settings.signup_validate_email /\ ~req.email_valid,
       code |-> "AUTH_EMAIL_INVALID"],
      [violated |-> UsernameLen(req.username) < 5, code |-> "AUTH_USERNAME_INVALID"],
      [violated |-> UsernameLen(req.username) >= 17, code |-> "AUTH_USERNAME_INVALID"],
      [violated |-> req.settings.signup_username_reject_nonalpha
                       /\ req.username.other > 0,
       code |-> "AUTH_USERNAME_INVALID"],
      [violated |-> req.settings.signup_username_reject_uppercase
                       /\ (req.username.upper > 0 \/ req.username.lower = 0),
       code |-> "AUTH_USERNAME_INVALID"],
      [violated |-> req.password_len < 6, code |-> "AUTH_PASSWORD_INVALID"],
      [violated |-> req.password_len >= 65, code |-> "AUTH_PASSWORD_INVALID"]>>

SignupMessages ==
    <<"Given email is already taken!", "Given username is already taken!",
      "Email invalid!", "Username should be longer than 4!",
      "Username should be shorten than 16!",
      "Username should only contain alphabet characters!",
      "Username should only contain lowercase characters!",
      "Password should be longer than 5!", "Password should be shorten than 64!">>

\* C19: validate_signup_fields raises one error, that of the first violated
\* rule in the order email-taken, username-taken, email-format,
\* username-length-low, username-length-high, username-alpha,
\* username-lowercase, password-length-low, password-length-high; it returns
\* only when no rule is violated; the format, alpha and lowercase rules are
\* violated only with their settings flag on
C19_FirstViolatedRule ==
    pc = "signup_done" =>
        LET Violated == {i \in 1..Len(SignupRules) : SignupRules[i].violated}
        IN  /\ result = NoResult <=> Violated = {}
            /\ \A i \in Violated :
                   (\A j \in Violated : i <= j) =>
                       result = ApiErrorException(SignupRules[i].code, SignupMessages[i])

\* the username is too long, not alphabetic and not lowercase, and the
\* password too short: the length error is the one raised
C19_Witness ==
    /\ pc = "signup_done"
    /\ ~req.email_taken /\ ~req.username_taken
    /\ UsernameLen(req.username) = 17 /\ req.username.other = 1 /\ req.username.upper = 1
    /\ req.settings.signup_username_reject_nonalpha
    /\ req.settings.signup_username_reject_uppercase
    /\ req.password_len = 5
    /\ result.message = "Username should be shorten than 16!"

\* a badly formed email and an uppercase username pass with the flags off
C19_WitnessFlagsOff ==
    /\ pc = "signup_done"
    /\ ~req.email_valid /\ req.username.upper = 1 /\ req.username.other = 1
    /\ ~req.settings.signup_validate_email
    /\ ~req.settings.signup_username_reject_nonalpha
    /\ ~req.settings.signup_username_reject_uppercase
    /\ result = NoResult

InvalidCredentials ==
    [kind |-> "error", exc |-> "ApiErrorException",
     code |-> "AUTH_INVALID_CREDENTIALS",
     message |-> "Invalid credentials for authentication.",
     required_scope |-> <<>>]

\* C20: validate_signin_fields raises one and the same InvalidCredentials
\* error (code, message, data) for a user that does not exist and for a wrong
\* password, and returns only for an existing user whose stored hash is that
\* of the password
C20_SigninIndistinguishable ==
    pc = "signin_done" =>
        /\ result = NoResult <=>
               (req.user.exists /\ req.user.password = HashOf(req.password))
        /\ result # NoResult => result = InvalidCredentials

C20_Witness ==
    /\ pc = "signin_done" /\ ~req.user.exists /\ result = InvalidCredentials

C20_WitnessWrongPassword ==
    /\ pc = "signin_done" /\ req.user.exists
    /\ req.user.password = HashOf("p1") /\ req.password = "p2"
    /\ result = InvalidCredentials

(***************************************************************************)
(* Properties of the order of the pipeline's steps                         *)
(***************************************************************************)
\* the failure conditions of a request, told from the token, the arguments
\* and the stores alone
WrongForm(tok) == tok.form # "jwt"
WrongType(tok, only_session_token) ==
    tok.type # (IF only_session_token THEN "session" ELSE "access")
Expired(tok) == now > tok.exp
\* the permission names a scope text holds between its separators
HeldNames(tok, only_session_token) ==
    IF only_session_token THEN {}
    ELSE {tok.scope[i] : i \in NamePlaces(tok.scope)}
Unsatisfied(tok, only_session_token, required) ==
    \E i \in 1..Len(required) : required[i] \notin HeldNames(tok, only_session_token)
SessionMissing(tok) == tok.sid.v \notin DOMAIN sessions
SessionInactive(tok) == ~sessions[tok.sid.v].is_active
BadSignature(tok) == tok.sig # sessions[tok.sid.v].token_secret
UserMissing(tok) == tok.sub \notin DOMAIN users
OwnerMismatch(tok) == sessions[tok.sid.v].owner_id # tok.sub
Deactivated(tok) == ~users[tok.sub].is_active

\* the step of the entry call: what it reports and what it has called
HeadPrecedence ==
    LET tok == req'.token
        only == req'.only_session_token
    IN  IF tok.form = "empty"
        THEN pipe' = ApiErrorException("AUTH_REQUIRED", "Authentication required!")
             /\ log' = <<>>
        ELSE IF WrongForm(tok)
        THEN pipe' = TokenException("TokenInvalidError") /\ log' = <<"decode_unsigned">>
        ELSE IF WrongType(tok, only)
        THEN pipe' = TokenException("TokenWrongTypeError") /\ log' = <<"decode_unsigned">>
        ELSE IF Expired(tok)
        THEN pipe' = TokenException("TokenExpiredError") /\ log' = <<"decode_unsigned">>
        ELSE IF Unsatisfied(tok, only, req'.required_permissions)
        THEN pipe'.code = "AUTH_INSUFFICIENT_PERMISSIONS" /\ log' = <<"decode_unsigned">>
        ELSE pc' = "session" /\ pipe' = NoResult /\ log' = <<"decode_unsigned">>

\* the step of the session: the lookup, the active flag, the client check,
\* the decode with the session's secret
SessionPrecedence ==
    LET tok == req.token
        due == ~auth.allow_external_clients /\ req.entry # "token"
    IN  IF ~tok.sid.is_int
        THEN pipe' = _raise_integrity_check_error /\ log' = log
        ELSE IF SessionMissing(tok)
        THEN pipe' = _raise_integrity_check_error
             /\ log' = Append(log, "session.get_by_id")
        ELSE IF SessionInactive(tok)
        THEN pipe' = SessionClosedError /\ log' = Append(log, "session.get_by_id")
        ELSE IF due /\ auth'.client = "mismatch"
        THEN pipe' = SuspiciousClient
             /\ log' = log \o <<"session.get_by_id", "check_client">>
        ELSE LET calls == IF due THEN <<"session.get_by_id", "check_client">>
                          ELSE <<"session.get_by_id">>
             IN  /\ log' = log \o calls \o <<"decode">>
                 /\ due <=> auth'.client = "ok"
                 /\ IF Expired(tok) THEN pipe' = TokenException("TokenExpiredError")
                    ELSE IF BadSignature(tok) THEN pipe' = InvalidSignatureError
                    ELSE pc' = "user" /\ pipe' = NoResult

\* the step of the user: the lookup, the owner, the activation
UserPrecedence ==
    LET tok == req.token
    IN  IF UserMissing(tok) \/ OwnerMismatch(tok)
        THEN pipe' = _raise_integrity_check_error
             /\ log' = Append(log, "user.get_by_id") /\ users' = users
        ELSE IF Deactivated(tok) /\ ~req.allow_deactivated
        THEN pipe' = ApiErrorException("USER_DEACTIVATED", DeactivatedMessage)
             /\ log' = Append(log, "user.get_by_id") /\ users' = users
        ELSE pipe' = Returned

\* C21: of the failure conditions that hold, the pipeline reports the one of
\* the earliest step in the order empty token, unsigned decode errors,
\* insufficient permissions, session id no integer or session missing, session
\* inactive, suspicious client, signed decode (expiry, then signature), user
\* missing or owner mismatch, user deactivated; a step that fails ends the
\* request, and the calls made are those up to the failing check and no more
C21_FailurePrecedence ==
    [][/\ (pc = "idle" /\ pc' # "idle") => HeadPrecedence
       /\ (pc = "session" /\ pc' # "session") => SessionPrecedence
       /\ (pc = "user" /\ pc' # "user") => UserPrecedence
       /\ (pc' = "done" /\ pc # "done" /\ pipe'.kind = "error")
             => /\ result' = Deliver(req'.entry, pipe')
                /\ sessions' = sessions /\ users' = users]_vars

\* a token with a session id that is no integer, a foreign signature and a
\* subject that is no user: the session id is what is reported, and no store
\* was called
C21_Witness ==
    /\ pc = "done"
    /\ ~req.token.sid.is_int /\ req.token.sig = ForeignKey /\ req.token.sub = 3
    /\ pipe = _raise_integrity_check_error
    /\ log = <<"decode_unsigned">>

\* a closed session and a foreign signature: the closed session is reported
C21_WitnessClosed ==
    /\ pc = "done"
    /\ req.token.sid = IntSid(1) /\ req.token.sig = ForeignKey
    /\ ~sessions[1].is_active
    /\ pipe = SessionClosedError
    /\ log = <<"decode_unsigned", "session.get_by_id">>

\* the token expired between the two decodes
C21_WitnessExpiredBetween ==
    /\ pc = "done" /\ pipe = TokenException("TokenExpiredError")
    /\ log[Len(log)] = "decode"

\* C22: the defensive checks do not fire from the entry points: _decode_token
\* is called with the access or the session class, so its ValueError is not
\* raised; in session-only mode a token that has passed a decode is a session
\* token, so the integrity error of the type check that follows the signed
\* decode is not raised
C22_DefensiveChecksUnreachable ==
    /\ pipe.exc # "ValueError"
    /\ result.exc # "ValueError"
    /\ (req.only_session_token /\ auth.token # NoToken) => auth.token.type = "session"
    /\ ~(/\ pc = "done"
         /\ pipe = _raise_integrity_check_error
         /\ log # <<>>
         /\ log[Len(log)] = "decode")

\* a session-only request whose two decodes and signature check have passed
C22_Witness ==
    /\ pc = "user" /\ req.only_session_token
    /\ log[Len(log)] = "decode"
    /\ auth.token.type = "session" /\ auth.token.signature_is_valid

C23_WitnessInsufficient ==
    /\ pc = "done" /\ req.only_session_token
    /\ req.token.scope = <<"oauth_clients">>
    /\ req.required_permissions = <<"oauth_clients">>
    /\ pipe.code = "AUTH_INSUFFICIENT_PERMISSIONS"
    /\ pipe.required_scope = <<"oauth_clients">>

\* how many times the call c stands in the log l
RECURSIVE Calls(_, _)
Calls(c, l) ==
    IF l = <<>> THEN 0
    ELSE (IF Head(l) = c THEN 1 ELSE 0) + Calls(c, Tail(l))

\* C24: a closed session is never opened again; a request whose session lookup
\* finds the session closed ends with the closed-session error and no
\* AuthData, however the closure is interleaved with the requests; the
\* session is looked up once per request, so a request that returns an
\* AuthData found its session active at that one lookup
C24_ClosureInterleaving ==
    [][/\ \A s \in SessionIds : sessions'[s].is_active => sessions[s].is_active
       /\ (/\ pc = "session" /\ pc' # "session"
           /\ auth.token.sid.is_int
           /\ auth.token.sid.v \in SessionIds
           /\ ~sessions[auth.token.sid.v].is_active)
             => /\ pc' = "done"
                /\ pipe' = SessionClosedError
                /\ result'.kind \notin {"auth", "pair_true"}
       /\ (pc # "done" /\ pc' = "done" /\ pipe'.kind = "auth")
             => /\ auth'.session.is_active
                /\ Calls("session.get_by_id", log') = 1]_vars

\* the session was closed after the lookup of a request that then succeeded
C24_Witness ==
    /\ pc = "done" /\ pipe.kind = "auth"
    /\ auth.session.id = 1 /\ auth.session.is_active
    /\ ~sessions[1].is_active

\* the session was closed between the entry call and the lookup
C24_WitnessClosedBefore ==
    /\ pc = "done" /\ pipe = SessionClosedError
    /\ req.token.sig = SessionSecret /\ req.token.sub = 1
    /\ ~sessions[1].is_active

(***************************************************************************)
(* Email confirmation (app/routers/email.py): confirm requests, one after  *)
(* another, against the user store                                         *)
(***************************************************************************)
\* api_success(...)
api_success ==
    [kind |-> "success", exc |-> "", code |-> "", message |-> "",
     required_scope |-> <<>>]

CftUserNotFoundMessage ==
    "Confirmation token has been issued for email, that does not refers to any existing user! Did you updated your account email address?"
CftAlreadyConfirmedMessage ==
    "Confirmation not required. You already confirmed your email!"

\* method_email_confirmation_confirm without the look at user.is_verified
method_email_confirmation_confirm_unchecked(cft, t) ==
    LET c == email_confirmation_decode(cft, t)
        uid == c.token.sub
    IN  IF c.response # NoResult
        THEN [response |-> c.response, log |-> <<"decode">>, confirm |-> 0]
        ELSE IF uid \notin DOMAIN users
        THEN [response |-> api_error("EMAIL_CONFIRMATION_USER_NOT_FOUND",
                                     CftUserNotFoundMessage),
              log |-> <<"decode", "user.get_by_id">>, confirm |-> 0]
        ELSE [response |-> api_success,
              log |-> <<"decode", "user.get_by_id", "email_confirm">>,
              confirm |-> uid]

\* method_email_confirmation_confirm up to crud.user.email_confirm: the
\* response, the calls made, and the user email_confirm is called for (0: none)
method_email_confirmation_confirm(cft, t) ==
    LET c == email_confirmation_decode(cft, t)
        uid == c.token.sub
    IN  IF c.response # NoResult
        THEN [response |-> c.response, log |-> <<"decode">>, confirm |-> 0]
        ELSE IF uid \notin DOMAIN users
        THEN [response |-> api_error("EMAIL_CONFIRMATION_USER_NOT_FOUND",
                                     CftUserNotFoundMessage),
              log |-> <<"decode", "user.get_by_id">>, confirm |-> 0]
        ELSE IF users[uid].is_verified
        THEN [response |-> api_error("EMAIL_CONFIRMATION_ALREADY_CONFIRMED",
                                     CftAlreadyConfirmedMessage),
              log |-> <<"decode", "user.get_by_id">>, confirm |-> 0]
        ELSE [response |-> api_success,
              log |-> <<"decode", "user.get_by_id", "email_confirm">>,
              confirm |-> uid]

\* the strings a confirm request may carry as its cft
CftTokens ==
    {EmptyToken, GarbageToken} \cup
    [form : {"jwt"}, type : TokenTypes, sub : Subjects, sid : {StrSid},
     scope : {<<>>}, exp : {TokenExp}, sig : {CftSecret, SessionSecret}]

\* pipe counts the calls of crud.user.email_confirm for every user
InitConfirm ==
    /\ sessions = [s \in SessionIds |->
                     [id |-> s, owner_id |-> 1, token_secret |-> SessionSecret,
                      is_active |-> TRUE]]
    /\ users = [u \in UserIds |->
                  [id |-> u, is_active |-> TRUE, time_online |-> -1,
                   is_verified |-> FALSE]]
    /\ now = 0
    /\ pc = "idle"
    /\ req = [cft |-> EmptyToken]
    /\ auth = NoAuth
    /\ log = <<>>
    /\ pipe = [u \in UserIds |-> 0]
    /\ result = NoResult

\* a confirm request, up to the await: the decode, the lookup, the check of
\* the verified flag, crud.user.email_confirm
ConfirmRequest ==
    /\ pc = "idle"
    /\ \E cft \in CftTokens :
        LET m == method_email_confirmation_confirm(cft, now)
        IN  /\ req' = [cft |-> cft]
            /\ log' = m.log
            /\ IF m.confirm # 0
               THEN /\ users' = [users EXCEPT ![m.confirm].is_verified = TRUE]
                    /\ pipe' = [pipe EXCEPT ![m.confirm] = @ + 1]
                    /\ pc' = "mail"
                    /\ result' = NoResult
               ELSE /\ users' = users
                    /\ pipe' = pipe
                    /\ pc' = "done"
                    /\ result' = m.response
    /\ UNCHANGED <<sessions, now, auth>>

\* the completion email is sent and the success returned
SendVerificationEnd ==
    /\ pc = "mail"
    /\ log' = Append(log, "send_verification_end_email")
    /\ result' = api_success
    /\ pc' = "done"
    /\ UNCHANGED <<sessions, users, now, req, auth, pipe>>

\* the response is given to the client
ConfirmRespond ==
    /\ pc = "done"
    /\ pc' = "idle"
    /\ req' = [cft |-> EmptyToken]
    /\ log' = <<>>
    /\ result' = NoResult
    /\ UNCHANGED <<sessions, users, now, auth, pipe>>

NextConfirm ==
    \/ ConfirmRequest
    \/ SendVerificationEnd
    \/ ConfirmRespond
    \/ Tick

SpecConfirm == InitConfirm /\ [][NextConfirm]_vars

\* the cft is a confirmation token, not expired, signed with the confirmation
\* secret
CftGood(cft) ==
    /\ cft.form = "jwt" /\ cft.type = "email"
    /\ now <= cft.exp /\ cft.sig = CftSecret

C25_WitnessConfirmed ==
    /\ pc = "done" /\ result = api_success
    /\ users[2].is_verified /\ pipe[2] = 1 /\ ~users[1].is_verified
    /\ log[Len(log)] = "send_verification_end_email"

(***************************************************************************)
(* validate_signup_fields over every length of username and password, the  *)
(* other rules passing                                                     *)
(***************************************************************************)
\* longest username and longest password given to the validator
MaxUsernameLen == 18
MaxPasswordLen == 66

\* a free email, a free username, a well-formed email, a username of
\* lowercase letters; every setting
InitLengths ==
    /\ InitStore
    /\ pc = "lengths"
    /\ \E n \in 0..MaxUsernameLen, m \in 0..MaxPasswordLen,
          settings \in SignupSettings :
        req = [email_taken |-> FALSE, username_taken |-> FALSE,
               email_valid |-> TRUE, settings |-> settings,
               username |-> [lower |-> n, upper |-> 0, other |-> 0],
               password_len |-> m]
    /\ auth = NoAuth
    /\ log = <<>>
    /\ pipe = NoResult
    /\ result = NoResult

\* a call of validate_signup_fields
ValidateLengths ==
    /\ pc = "lengths"
    /\ result' = validate_signup_fields(req.email_taken, req.username_taken,
                                        req.email_valid, req.settings,
                                        req.username, req.password_len)
    /\ pc' = "lengths_done"
    /\ UNCHANGED <<sessions, users, now, req, auth, log, pipe>>

NextLengths == ValidateLengths

SpecLengths == InitLengths /\ [][NextLengths]_vars

\* C26: with the other rules passing, a username of length n is accepted
\* exactly when 5 <= n <= 16 and otherwise rejected with the username error;
\* a password of length m is accepted exactly when 6 <= m <= 64 and otherwise
\* rejected with the password error
C26_LengthBoundaries ==
    pc = "lengths_done" =>
        LET n == req.username.lower
            m == req.password_len
        IN  /\ result = NoResult <=> (n \in 5..16 /\ m \in 6..64)
            /\ n \notin 5..16 => result.code = "AUTH_USERNAME_INVALID"
            /\ (n \in 5..16 /\ m \notin 6..64) => result.code = "AUTH_PASSWORD_INVALID"
            /\ result # NoResult => result.exc = "ApiErrorException"

\* the longest username and the longest password that pass
C26_Witness ==
    /\ pc = "lengths_done"
    /\ req.username.lower = 16 /\ req.password_len = 64
    /\ req.settings.signup_username_reject_nonalpha
    /\ req.settings.signup_username_reject_uppercase
    /\ result = NoResult

\* one character more in the password
C26_WitnessTooLong ==
    /\ pc = "lengths_done"
    /\ req.username.lower = 5 /\ req.password_len = 65
    /\ result.code = "AUTH_PASSWORD_INVALID"

====
